---- MODULE Spec2Model ----
(***************************************************************************)
(* The two FastAPI services of the e-learning application:                 *)
(*   packages/ai-service/src/main.py                 ("AI Service")        *)
(*   packages/audio-processing-service/src/main.py   ("Audio Processing    *)
(*                                                     Service")           *)
(* One behaviour is one service process.  Clients hold connections; a      *)
(* request is received, then served by the application (routing, binding   *)
(* and validation of the parameters, the endpoint function, the response). *)
(* Paths are sequences of segments.  Floats (speed, pitch) are in tenths.  *)
(* time.time() is the wall clock in whole seconds: it can be set, forward  *)
(* or back, so each read of it yields any value of Clock.                  *)
(***************************************************************************)
EXTENDS Integers, Sequences, FiniteSets, TLC

VARIABLES service, startTime, pc, req, out, ran

vars == <<service, startTime, pc, req, out, ran>>

(* ---------------------------------------------------------------- bounds *)

\* The last second of the wall clock; the process starts at second 1.
MaxClock == 2

\* Optional parameters a generated request may carry explicitly.
MaxOptional == 1

\* Client connections: two, the least that interleave.
Conns == {"c1", "c2"}

AI == "AI Service"

Audio == "Audio Processing Service"

Services == {AI, Audio}

\* Values of time.time(): seconds since the epoch, positive on any machine.
Clock == 1 .. MaxClock

(* -------------------------------------------------- request models (AI) *)

TextAnalysisRequest ==
    [required |-> {"text"}, defaults |-> [language |-> "en"]]

TranslationRequest ==
    [required |-> {"text"},
     defaults |-> [source_lang |-> "vi", target_lang |-> "en"]]

GrammarCheckRequest ==
    [required |-> {"text"}, defaults |-> <<>>]

ContentGenerationRequest ==
    [required |-> {"topic"},
     defaults |-> [level |-> "beginner", content_type |-> "lesson"]]

TTSRequest ==
    [required |-> {"text"},
     defaults |-> [language |-> "en", voice |-> "default"]]

(* ----------------------------------------------- request models (Audio) *)

AudioTranscriptionRequest ==
    [required |-> {}, defaults |-> [language |-> "en"]]

PronunciationRequest ==
    [required |-> {"reference_text"}, defaults |-> [language |-> "en"]]

AudioAnalysisRequest ==
    [required |-> {},
     defaults |-> [language |-> "en", analysis_type |-> "pronunciation"]]

VoiceSynthesisRequest ==
    [required |-> {"text"},
     defaults |-> [language |-> "en", voice |-> "default",
                   speed |-> 10, pitch |-> 10]]

AudioComparisonRequest ==
    [required |-> {"reference_text"}, defaults |-> [language |-> "en"]]

\* An endpoint function without parameters.
NoParams == [required |-> {}, defaults |-> <<>>]

\* audio_file: UploadFile = File(...), language: str = "en"
UploadWithLanguage ==
    [required |-> {"audio_file"}, defaults |-> [language |-> "en"]]

\* audio_file: UploadFile = File(...), reference_text: str = "",
\* language: str = "en"
UploadWithReference ==
    [required |-> {"audio_file"},
     defaults |-> [reference_text |-> "", language |-> "en"]]

\* audio_file: UploadFile = File(...)
UploadOnly == [required |-> {"audio_file"}, defaults |-> <<>>]

(* ------------------------------------------------------------ signatures *)

\* The parameters each endpoint function declares.
AISignature(h) ==
    CASE h \in {"analyze_text", "analyze_difficulty"} -> TextAnalysisRequest
      [] h = "translate_text" -> TranslationRequest
      [] h \in {"check_grammar", "correct_grammar"} -> GrammarCheckRequest
      [] h \in {"generate_content", "generate_exercises",
                "generate_questions"} -> ContentGenerationRequest
      [] h = "generate_speech" -> TTSRequest
      [] OTHER -> NoParams

AudioSignature(h) ==
    CASE h \in {"transcribe_audio", "analyze_phonemes", "analyze_rhythm"} ->
             UploadWithLanguage
      [] h \in {"analyze_pronunciation", "score_pronunciation",
                "pronunciation_feedback"} -> UploadWithReference
      [] h = "generate_voice" -> VoiceSynthesisRequest
      [] h = "analyze_audio" ->
             [required |-> {"audio_file"},
              defaults |-> [analysis_type |-> "general"]]
      [] h \in {"reduce_noise", "normalize_audio"} -> UploadOnly
      [] h = "convert_audio" ->
             [required |-> {"audio_file"},
              defaults |-> [target_format |-> "wav"]]
      [] OTHER -> NoParams

\* Endpoints whose required text, topic or upload has a default instead.
SignatureAllOptional(svc, h) ==
    LET sig == IF svc = AI THEN AISignature(h) ELSE AudioSignature(h)
    IN  [required |-> {},
         defaults |->
            [k \in sig.required |->
                IF k = "audio_file" THEN [filename |-> ""] ELSE ""]
            @@ sig.defaults]

Signature(svc, h) == IF svc = AI THEN AISignature(h) ELSE AudioSignature(h)

(* ---------------------------------------------------------------- routes *)

Route(m, p, h) == [method |-> m, path |-> p, handler |-> h]

\* The @app.get / @app.post decorators of the AI service, in source order.
AIRoutes ==
    << Route("GET",  <<"health">>,                   "health_check"),
       Route("POST", <<"analyze", "text">>,          "analyze_text"),
       Route("POST", <<"analyze", "difficulty">>,    "analyze_difficulty"),
       Route("POST", <<"translate">>,                "translate_text"),
       Route("POST", <<"grammar", "check">>,         "check_grammar"),
       Route("POST", <<"grammar", "correct">>,       "correct_grammar"),
       Route("POST", <<"generate", "content">>,      "generate_content"),
       Route("POST", <<"generate", "exercises">>,    "generate_exercises"),
       Route("POST", <<"generate", "questions">>,    "generate_questions"),
       Route("POST", <<"tts", "generate">>,          "generate_speech"),
       Route("POST", <<"chat", "conversation">>,     "chat_conversation"),
       Route("POST", <<"chat", "speaking-practice">>, "speaking_practice"),
       Route("GET",  <<"docs-info">>,                "get_docs_info"),
       Route("GET",  <<>>,                           "root") >>

\* The decorators of the audio processing service, in source order.
AudioRoutes ==
    << Route("GET",  <<"health">>,                    "health_check"),
       Route("POST", <<"transcribe", "audio">>,       "transcribe_audio"),
       Route("POST", <<"transcribe", "real-time">>,   "transcribe_real_time"),
       Route("POST", <<"pronunciation", "analyze">>,  "analyze_pronunciation"),
       Route("POST", <<"pronunciation", "score">>,    "score_pronunciation"),
       Route("POST", <<"pronunciation", "feedback">>, "pronunciation_feedback"),
       Route("POST", <<"synthesis", "generate">>,     "generate_voice"),
       Route("POST", <<"synthesis", "ssml">>,         "generate_ssml_voice"),
       Route("POST", <<"analyze", "audio">>,          "analyze_audio"),
       Route("POST", <<"analyze", "phonemes">>,       "analyze_phonemes"),
       Route("POST", <<"analyze", "rhythm">>,         "analyze_rhythm"),
       Route("POST", <<"process", "noise-reduction">>, "reduce_noise"),
       Route("POST", <<"process", "normalize">>,      "normalize_audio"),
       Route("POST", <<"process", "convert">>,        "convert_audio"),
       Route("POST", <<"practice", "conversation">>,  "conversation_practice"),
       Route("POST", <<"practice", "word-pronunciation">>,
                                               "word_pronunciation_practice"),
       Route("POST", <<"practice", "sentence-reading">>,
                                               "sentence_reading_practice"),
       Route("GET",  <<"docs-info">>,                 "get_docs_info"),
       Route("GET",  <<>>,                            "root") >>

\* The AI service without its chat routes.
RoutesWithoutChat(svc) ==
    IF svc = AI THEN SubSeq(AIRoutes, 1, 10) \o SubSeq(AIRoutes, 13, 14)
    ELSE AudioRoutes

Routes(svc) == IF svc = AI THEN AIRoutes ELSE AudioRoutes

\* The keys of the "endpoints" map of /docs-info; "*" stands for any segment.
AIDocsEndpoints ==
    { <<"health">>, <<"analyze", "*">>, <<"translate">>, <<"grammar", "*">>,
      <<"generate", "*">>, <<"tts", "*">>, <<"chat", "*">> }

AudioDocsEndpoints ==
    { <<"health">>, <<"transcribe", "*">>, <<"pronunciation", "*">>,
      <<"synthesis", "*">>, <<"analyze", "*">>, <<"process", "*">>,
      <<"practice", "*">> }

DocsEndpoints(svc) == IF svc = AI THEN AIDocsEndpoints ELSE AudioDocsEndpoints

(* ------------------------------------------------------ routing, binding *)

\* The routes whose path is the request's path, in registration order (the
\* order in which Starlette tries them).
PathMatches(svc, p) == SelectSeq(Routes(svc), LAMBDA r : r.path = p)

\* The routes of the path that also accept the method.
FullMatches(svc, m, p) == SelectSeq(PathMatches(svc, p), LAMBDA r : r.method = m)

\* The first full match is the one Starlette calls.
Dispatch(svc, m, p) == Head(FullMatches(svc, m, p)).handler

\* FastAPI's check of the given parameters against the declared ones: a
\* declared parameter without default must be given.
Missing(svc, h, fields) == Signature(svc, h).required \ DOMAIN fields

\* analyze_audio taking its defaults from the AudioAnalysisRequest model
\* instead of its own parameter list.
BindRequestModel(svc, h, fields) ==
    LET sig == Signature(svc, h)
        declared == sig.required \cup DOMAIN sig.defaults
        given == [k \in (DOMAIN fields) \cap declared |-> fields[k]]
    IN  IF svc = Audio /\ h = "analyze_audio"
        THEN given @@ AudioAnalysisRequest.defaults
        ELSE given @@ sig.defaults

\* The arguments the endpoint function is called with: the given values of
\* the declared parameters, and the declared default of each one not given.
Bind(svc, h, fields) ==
    LET sig == Signature(svc, h)
        declared == sig.required \cup DOMAIN sig.defaults
        given == [k \in (DOMAIN fields) \cap declared |-> fields[k]]
    IN  given @@ sig.defaults

\* datetime.now().isoformat(): the date and time fields of the clock value.
IsoFormat(t) == [date |-> t \div 86400, time |-> t % 86400]

(* ------------------------------------------------- endpoint functions *)

NotImpl == "Not implemented yet"

\* The dict each endpoint function of the AI service returns; a is the
\* bound request, t what time.time() and datetime.now() read.
AIEndpoint(h, a, t) ==
    CASE h = "health_check" ->
             [status |-> "OK", service |-> AI, timestamp |-> IsoFormat(t),
              uptime |-> t, version |-> "1.0.0"]
      [] h = "analyze_text" ->
             [message |-> "Text analysis endpoint", text |-> a.text,
              language |-> a.language, status |-> NotImpl, service |-> AI]
      [] h = "analyze_difficulty" ->
             [message |-> "Text difficulty analysis endpoint",
              text |-> a.text, status |-> NotImpl, service |-> AI]
      [] h = "translate_text" ->
             [message |-> "Translation endpoint", source_text |-> a.text,
              source_lang |-> a.source_lang, target_lang |-> a.target_lang,
              status |-> NotImpl, service |-> AI]
      [] h = "check_grammar" ->
             [message |-> "Grammar check endpoint", text |-> a.text,
              status |-> NotImpl, service |-> AI]
      [] h = "correct_grammar" ->
             [message |-> "Grammar correction endpoint", text |-> a.text,
              status |-> NotImpl, service |-> AI]
      [] h = "generate_content" ->
             [message |-> "Content generation endpoint", topic |-> a.topic,
              level |-> a.level, content_type |-> a.content_type,
              status |-> NotImpl, service |-> AI]
      [] h = "generate_exercises" ->
             [message |-> "Exercise generation endpoint", topic |-> a.topic,
              level |-> a.level, status |-> NotImpl, service |-> AI]
      [] h = "generate_questions" ->
             [message |-> "Question generation endpoint", topic |-> a.topic,
              level |-> a.level, status |-> NotImpl, service |-> AI]
      [] h = "generate_speech" ->
             [message |-> "Text-to-Speech generation endpoint",
              text |-> a.text, language |-> a.language, voice |-> a.voice,
              status |-> NotImpl, service |-> AI]
      [] h = "chat_conversation" ->
             [message |-> "Conversational AI endpoint",
              status |-> NotImpl, service |-> AI]
      [] h = "speaking_practice" ->
             [message |-> "Speaking practice AI endpoint",
              status |-> NotImpl, service |-> AI]
      [] h = "get_docs_info" ->
             [name |-> "E-Learning AI Service", version |-> "1.0.0",
              description |-> "AI services for English learning application",
              features |->
                << "Text analysis and difficulty assessment",
                   "Translation services",
                   "Grammar checking and correction",
                   "Content generation (lessons, exercises, questions)",
                   "Text-to-Speech synthesis",
                   "Conversational AI for practice" >>,
              endpoints |-> AIDocsEndpoints]
      [] h = "root" ->
             [message |-> "E-Learning AI Service", version |-> "1.0.0",
              status |-> "Running", docs |-> "/docs", health |-> "/health"]

\* The dict each endpoint function of the audio service returns.
AudioEndpoint(h, a, t) ==
    CASE h = "health_check" ->
             [status |-> "OK", service |-> Audio,
              timestamp |-> IsoFormat(t), uptime |-> t,
              version |-> "1.0.0"]
      [] h = "transcribe_audio" ->
             [message |-> "Audio transcription endpoint",
              filename |-> a.audio_file.filename, language |-> a.language,
              status |-> NotImpl, service |-> Audio]
      [] h = "transcribe_real_time" ->
             [message |-> "Real-time audio transcription endpoint",
              status |-> NotImpl, service |-> Audio]
      [] h = "analyze_pronunciation" ->
             [message |-> "Pronunciation analysis endpoint",
              filename |-> a.audio_file.filename,
              reference_text |-> a.reference_text, language |-> a.language,
              status |-> NotImpl, service |-> Audio]
      [] h = "score_pronunciation" ->
             [message |-> "Pronunciation scoring endpoint",
              filename |-> a.audio_file.filename,
              reference_text |-> a.reference_text, language |-> a.language,
              status |-> NotImpl, service |-> Audio]
      [] h = "pronunciation_feedback" ->
             [message |-> "Pronunciation feedback endpoint",
              filename |-> a.audio_file.filename,
              reference_text |-> a.reference_text, language |-> a.language,
              status |-> NotImpl, service |-> Audio]
      [] h = "generate_voice" ->
             [message |-> "Voice synthesis endpoint", text |-> a.text,
              language |-> a.language, voice |-> a.voice, speed |-> a.speed,
              pitch |-> a.pitch, status |-> NotImpl, service |-> Audio]
      [] h = "generate_ssml_voice" ->
             [message |-> "SSML voice synthesis endpoint",
              status |-> NotImpl, service |-> Audio]
      [] h = "analyze_audio" ->
             [message |-> "Audio analysis endpoint",
              filename |-> a.audio_file.filename,
              analysis_type |-> a.analysis_type,
              status |-> NotImpl, service |-> Audio]
      [] h = "analyze_phonemes" ->
             [message |-> "Phoneme analysis endpoint",
              filename |-> a.audio_file.filename, language |-> a.language,
              status |-> NotImpl, service |-> Audio]
      [] h = "analyze_rhythm" ->
             [message |-> "Rhythm analysis endpoint",
              filename |-> a.audio_file.filename, language |-> a.language,
              status |-> NotImpl, service |-> Audio]
      [] h = "reduce_noise" ->
             [message |-> "Noise reduction endpoint",
              filename |-> a.audio_file.filename,
              status |-> NotImpl, service |-> Audio]
      [] h = "normalize_audio" ->
             [message |-> "Audio normalization endpoint",
              filename |-> a.audio_file.filename,
              status |-> NotImpl, service |-> Audio]
      [] h = "convert_audio" ->
             [message |-> "Audio conversion endpoint",
              filename |-> a.audio_file.filename,
              target_format |-> a.target_format,
              status |-> NotImpl, service |-> Audio]
      [] h = "conversation_practice" ->
             [message |-> "Conversation practice endpoint",
              status |-> NotImpl, service |-> Audio]
      [] h = "word_pronunciation_practice" ->
             [message |-> "Word pronunciation practice endpoint",
              status |-> NotImpl, service |-> Audio]
      [] h = "sentence_reading_practice" ->
             [message |-> "Sentence reading practice endpoint",
              status |-> NotImpl, service |-> Audio]
      [] h = "get_docs_info" ->
             [name |-> "E-Learning Audio Processing Service",
              version |-> "1.0.0",
              description |->
                "Audio processing services for English learning application",
              features |->
                << "Audio transcription (Whisper integration)",
                   "Pronunciation analysis and scoring",
                   "Voice synthesis with customization",
                   "Audio analysis (phonemes, rhythm, quality)",
                   "Audio processing (noise reduction, normalization)",
                   "Speaking practice tools" >>,
              endpoints |-> AudioDocsEndpoints,
              supported_formats |-> {"wav", "mp3", "m4a", "ogg"},
              languages |-> {"en", "vi"}]
      [] h = "root" ->
             [message |-> "E-Learning Audio Processing Service",
              version |-> "1.0.0", status |-> "Running", docs |-> "/docs",
              health |-> "/health"]

\* A task endpoint whose dict lacks the service field.
EndpointNoService(svc, h, a, t) ==
    LET b == IF svc = AI THEN AIEndpoint(h, a, t) ELSE AudioEndpoint(h, a, t)
    IN  IF h \in {"chat_conversation", "generate_ssml_voice"}
        THEN [k \in DOMAIN b \ {"service"} |-> b[k]]
        ELSE b

\* Speech endpoints that report an error status instead of the stub status.
EndpointStatusError(svc, h, a, t) ==
    LET b == IF svc = AI THEN AIEndpoint(h, a, t) ELSE AudioEndpoint(h, a, t)
    IN  IF h \in {"generate_speech", "generate_voice"}
        THEN [b EXCEPT !.status = "error"]
        ELSE b

\* translate_text with the two languages exchanged.
EndpointSwapped(svc, h, a, t) ==
    LET b == IF svc = AI THEN AIEndpoint(h, a, t) ELSE AudioEndpoint(h, a, t)
    IN  CASE h = "translate_text" ->
                [b EXCEPT !.source_lang = a.target_lang,
                          !.target_lang = a.source_lang]
          [] OTHER -> b

Endpoint(svc, h, a, t) ==
    IF svc = AI THEN AIEndpoint(h, a, t) ELSE AudioEndpoint(h, a, t)

(* ------------------------------------------------------------- requests *)

\* The values a client may send for a parameter.
FieldVals(k) ==
    CASE k = "text" -> {"hello"}
      [] k = "topic" -> {"travel"}
      [] k \in {"language", "source_lang", "target_lang"} -> {"en", "vi"}
      [] k = "level" -> {"beginner", "advanced"}
      [] k = "content_type" -> {"lesson", "quiz"}
      [] k = "voice" -> {"default", "female"}
      [] k = "speed" -> {10, 50}
      [] k = "pitch" -> {10, 0}
      [] k = "audio_file" -> {[filename |-> "a.wav"]}
      [] k = "reference_text" -> {"", "the quick brown fox"}
      [] k = "analysis_type" -> {"general", "pronunciation"}
      [] k = "target_format" -> {"wav", "mp3"}

RECURSIVE Maps(_)
\* Every assignment of values to the parameters S.
Maps(S) ==
    IF S = {} THEN {<<>>}
    ELSE LET k == CHOOSE x \in S : TRUE
         IN  {(k :> v) @@ m : v \in FieldVals(k), m \in Maps(S \ {k})}

\* The parameter sets a client may send to an endpoint: any of the required
\* ones, and at most MaxOptional of the optional ones.
FieldSets(sig) ==
    {R \cup O : R \in SUBSET sig.required,
                O \in {X \in SUBSET DOMAIN sig.defaults :
                           Cardinality(X) <= MaxOptional}}

Request(m, p, f) == [method |-> m, path |-> p, fields |-> f]

NoRequest == Request("", <<>>, <<>>)

\* Requests to the registered routes.
RoutedRequests(svc) ==
    UNION {{Request(Routes(svc)[i].method, Routes(svc)[i].path, f) :
              f \in UNION {Maps(S) :
                             S \in FieldSets(Signature(svc,
                                               Routes(svc)[i].handler))}} :
           i \in DOMAIN Routes(svc)}

\* Requests no route serves: an unknown path, a known path with the other
\* method.
StrayRequests(svc) ==
    {Request("POST", <<"analyze", "unknown">>, <<>>),
     Request("POST", <<"health">>, <<>>)}

Requests(svc) == RoutedRequests(svc) \cup StrayRequests(svc)

Response(code, body) == [code |-> code, body |-> body]

(* --------------------------------------------------------------- actions *)

Init ==
    /\ service \in Services
    /\ startTime = 1
    /\ pc = [c \in Conns |-> "idle"]
    /\ req = [c \in Conns |-> NoRequest]
    /\ out = [c \in Conns |-> <<>>]
    /\ ran = [c \in Conns |-> <<>>]

\* A client's request arrives on its connection.
Receive(c) ==
    /\ pc[c] = "idle"
    /\ \E r \in Requests(service) : req' = [req EXCEPT ![c] = r]
    /\ pc' = [pc EXCEPT ![c] = "received"]
    /\ UNCHANGED <<service, startTime, out, ran>>

Respond(c, r) ==
    /\ out' = [out EXCEPT ![c] = Append(@, r)]
    /\ pc' = [pc EXCEPT ![c] = "done"]

\* No route has the path: Starlette's default 404.
NotFound(c) ==
    /\ pc[c] = "received"
    /\ PathMatches(service, req[c].path) = <<>>
    /\ Respond(c, Response(404, [detail |-> "Not Found"]))
    /\ UNCHANGED <<service, startTime, req, ran>>

\* The path is registered, but not for this method: 405.
MethodNotAllowed(c) ==
    /\ pc[c] = "received"
    /\ PathMatches(service, req[c].path) # <<>>
    /\ FullMatches(service, req[c].method, req[c].path) = <<>>
    /\ Respond(c, Response(405, [detail |-> "Method Not Allowed"]))
    /\ UNCHANGED <<service, startTime, req, ran>>

\* A declared parameter without default is missing: FastAPI answers 422
\* with the list of the missing fields; the endpoint function is not called.
Unprocessable(c) ==
    /\ pc[c] = "received"
    /\ FullMatches(service, req[c].method, req[c].path) # <<>>
    /\ LET h == Dispatch(service, req[c].method, req[c].path)
           miss == Missing(service, h, req[c].fields)
       IN  /\ miss # {}
           /\ Respond(c, Response(422,
                  [detail |-> {[loc |-> k, msg |-> "field required"] :
                                 k \in miss}]))
    /\ UNCHANGED <<service, startTime, req, ran>>

\* The clock values an endpoint function can observe: only health_check
\* reads the clock.
ClockReads(h) == IF h = "health_check" THEN Clock ELSE {startTime}

\* An endpoint function that adds a process-wide count of the requests in
\* progress to its dict.
CallCounting(c) ==
    /\ pc[c] = "received"
    /\ FullMatches(service, req[c].method, req[c].path) # <<>>
    /\ LET h == Dispatch(service, req[c].method, req[c].path)
           n == Cardinality({d \in Conns : pc[d] = "received"})
       IN  /\ Missing(service, h, req[c].fields) = {}
           /\ ran' = [ran EXCEPT ![c] = Append(@, h)]
           /\ \E t \in ClockReads(h) :
                  Respond(c, Response(200,
                     ("in_progress" :> n) @@
                     Endpoint(service, h, Bind(service, h, req[c].fields), t)))
    /\ UNCHANGED <<service, startTime, req>>

\* Real-time endpoints that stream: a partial result, then the final one.
CallStreamed(c) ==
    /\ pc[c] = "received"
    /\ FullMatches(service, req[c].method, req[c].path) # <<>>
    /\ LET h == Dispatch(service, req[c].method, req[c].path)
       IN  /\ Missing(service, h, req[c].fields) = {}
           /\ ran' = [ran EXCEPT ![c] = Append(@, h)]
           /\ \E t \in ClockReads(h) :
                LET r == Response(200,
                      Endpoint(service, h, Bind(service, h, req[c].fields), t))
                IN  /\ pc' = [pc EXCEPT ![c] = "done"]
                    /\ out' = [out EXCEPT ![c] =
                          IF h \in {"transcribe_real_time", "chat_conversation"}
                          THEN <<r, r>> ELSE <<r>>]
    /\ UNCHANGED <<service, startTime, req>>

\* The endpoint function runs on the bound parameters, at a moment when the
\* clock shows t, and its dict is the body of a 200 response.
Call(c) ==
    /\ pc[c] = "received"
    /\ FullMatches(service, req[c].method, req[c].path) # <<>>
    /\ LET h == Dispatch(service, req[c].method, req[c].path)
       IN  /\ Missing(service, h, req[c].fields) = {}
           /\ ran' = [ran EXCEPT ![c] = Append(@, h)]
           /\ \E t \in ClockReads(h) :
                  Respond(c, Response(200,
                     Endpoint(service, h, Bind(service, h, req[c].fields), t)))
    /\ UNCHANGED <<service, startTime, req>>

\* The client has read the response; the connection is free again.
Close(c) ==
    /\ pc[c] = "done"
    /\ pc' = [pc EXCEPT ![c] = "idle"]
    /\ req' = [req EXCEPT ![c] = NoRequest]
    /\ out' = [out EXCEPT ![c] = <<>>]
    /\ ran' = [ran EXCEPT ![c] = <<>>]
    /\ UNCHANGED <<service, startTime>>

Next ==
    \/ \E c \in Conns : Receive(c)
    \/ \E c \in Conns : NotFound(c)
    \/ \E c \in Conns : MethodNotAllowed(c)
    \/ \E c \in Conns : Unprocessable(c)
    \/ \E c \in Conns : Call(c)
    \/ \E c \in Conns : Close(c)

Spec == Init /\ [][Next]_vars

\* The event loop runs every request it has received.
Served(c) == NotFound(c) \/ MethodNotAllowed(c) \/ Unprocessable(c) \/ Call(c)

FairSpec == Spec /\ \A c \in Conns : WF_vars(Served(c))

(* ---------------------------------------------------------------- claims *)

\* The one response of a served request.
Resp(c) == out[c][1]

\* The request of connection c is one a route of the service serves.
Routed(c) ==
    /\ pc[c] # "idle"
    /\ FullMatches(service, req[c].method, req[c].path) # <<>>

Handler(c) == Dispatch(service, req[c].method, req[c].path)

\* The endpoint functions that are neither health, manifest nor root.
TaskHandlers(svc) ==
    {Routes(svc)[i].handler : i \in {j \in DOMAIN Routes(svc) :
                                          Routes(svc)[j].method = "POST"}}

\* A valid request: routed, with every declared required parameter given.
Valid(c) == Routed(c) /\ Missing(service, Handler(c), req[c].fields) = {}

PostTo(c, svc, p) ==
    /\ pc[c] # "idle"
    /\ service = svc
    /\ req[c].method = "POST"
    /\ req[c].path = p

\* A 4xx answer, the endpoint function not called.
Rejected(c) ==
    /\ ran[c] = <<>>
    /\ pc[c] = "done" => Resp(c).code \in 400 .. 499

\* A speed or pitch in tenths outside the range (0, 3].
OutOfRange(f, k) == k \in DOMAIN f /\ ~(f[k] > 0 /\ f[k] <= 30)

\* C2: a POST /synthesis/generate whose speed or pitch is outside (0, 3]
\* is rejected with a 4xx and generate_voice never runs on it.
C2_OutOfRangeRejected ==
    \A c \in Conns :
        (/\ PostTo(c, Audio, <<"synthesis", "generate">>)
         /\ "text" \in DOMAIN req[c].fields
         /\ OutOfRange(req[c].fields, "speed")
               \/ OutOfRange(req[c].fields, "pitch"))
            => Rejected(c)

\* The field the claim names as required for a POST path of a service;
\* "" where it names none.
C3_RequiredField(svc, p) ==
    IF svc = AI
    THEN CASE p \in {<<"analyze", "text">>, <<"analyze", "difficulty">>,
                     <<"translate">>, <<"grammar", "check">>,
                     <<"grammar", "correct">>, <<"tts", "generate">>} -> "text"
           [] p \in {<<"generate", "content">>, <<"generate", "exercises">>,
                     <<"generate", "questions">>} -> "topic"
           [] OTHER -> ""
    ELSE CASE p = <<"synthesis", "generate">> -> "text"
           [] p \in {<<"transcribe", "audio">>, <<"pronunciation", "analyze">>,
                     <<"pronunciation", "score">>,
                     <<"pronunciation", "feedback">>, <<"analyze", "audio">>,
                     <<"analyze", "phonemes">>, <<"analyze", "rhythm">>,
                     <<"process", "noise-reduction">>,
                     <<"process", "normalize">>, <<"process", "convert">>} ->
                  "audio_file"
           [] OTHER -> ""

\* The request of c omits the field its endpoint requires.
OmitsRequired(c) ==
    /\ pc[c] # "idle"
    /\ req[c].method = "POST"
    /\ C3_RequiredField(service, req[c].path) # ""
    /\ C3_RequiredField(service, req[c].path) \notin DOMAIN req[c].fields

\* C3: a request that omits the required field of its endpoint (text, topic
\* or audio_file) is answered with a 4xx validation error and the endpoint
\* function never runs on it.
C3_MissingRequiredRejected ==
    \A c \in Conns : OmitsRequired(c) => Rejected(c)

\* Requests without text, without topic and without audio_file have been
\* answered.
C3_Witness ==
    /\ pc["c1"] = "done" /\ OmitsRequired("c1")
    /\ pc["c2"] = "done" /\ OmitsRequired("c2")
    /\ service = Audio
    /\ req["c1"].path = <<"synthesis", "generate">>
    /\ req["c2"].path = <<"pronunciation", "score">>

\* The request of c1 is the request of c2 with the optional parameter k
\* given explicitly, at its declared default.
ExplicitDefault(c1, c2, k) ==
    LET f1 == req[c1].fields
        f2 == req[c2].fields
        d == Signature(service, Handler(c1)).defaults
    IN  /\ req[c1].method = req[c2].method
        /\ req[c1].path = req[c2].path
        /\ k \in DOMAIN d
        /\ k \notin DOMAIN f2
        /\ DOMAIN f1 = DOMAIN f2 \cup {k}
        /\ f1[k] = d[k]
        /\ \A j \in DOMAIN f2 : f1[j] = f2[j]

\* C4: a request that gives an optional parameter explicitly at its default
\* gets exactly the response of the same request without that parameter.
C4_DefaultingIdempotent ==
    \A c1, c2 \in Conns :
        (/\ pc[c1] = "done" /\ pc[c2] = "done"
         /\ Routed(c1) /\ Routed(c2)
         /\ \E k \in DOMAIN req[c1].fields : ExplicitDefault(c1, c2, k))
            => out[c1] = out[c2]

\* /synthesis/generate answered with speed=1.0 given and with speed omitted.
C4_Witness ==
    /\ pc["c1"] = "done" /\ pc["c2"] = "done"
    /\ Valid("c1") /\ Valid("c2")
    /\ Handler("c1") = "generate_voice"
    /\ ExplicitDefault("c1", "c2", "speed")

\* The path p belongs to the route family fam of the manifest.
InFamily(fam, p) ==
    /\ Len(fam) = Len(p)
    /\ \A i \in 1 .. Len(fam) : fam[i] = "*" \/ fam[i] = p[i]

\* The number of task kinds the specification enumerates for a service.
TaskKinds(svc) == IF svc = AI THEN 11 ELSE 16

\* The route tables of both services agree with their manifests and with
\* the enumeration of task kinds.
RouteTablesSound ==
    \A svc \in Services :
        LET routes == Routes(svc)
            posts == {i \in DOMAIN routes : routes[i].method = "POST"}
        IN  /\ \A fam \in DocsEndpoints(svc) :
                   \E i \in DOMAIN routes : InFamily(fam, routes[i].path)
            /\ \A i, j \in DOMAIN routes :
                   (routes[i].method = routes[j].method
                      /\ routes[i].path = routes[j].path) => i = j
            /\ Cardinality(posts) = TaskKinds(svc)
            /\ Cardinality({routes[i].handler : i \in posts}) = TaskKinds(svc)
            /\ \A i \in posts :
                   \E fam \in DocsEndpoints(svc) :
                      InFamily(fam, routes[i].path)

\* C5: every route family of the /docs-info endpoints map has a registered
\* route, no method and path is registered twice, the task routes are the
\* 11 (AI) or 16 (audio) task kinds with one endpoint function each, and a
\* served request to a registered route ran exactly one endpoint function.
C5_DispatchTotal ==
    /\ RouteTablesSound
    /\ \A c \in Conns :
           Routed(c) =>
              /\ Len(FullMatches(service, req[c].method, req[c].path)) = 1
              /\ (pc[c] = "done" /\ Valid(c)) => ran[c] = <<Handler(c)>>

\* Requests to two routes of one documented family have each run their own
\* endpoint function.
C5_Witness ==
    /\ pc["c1"] = "done" /\ pc["c2"] = "done"
    /\ req["c1"].path = <<"chat", "conversation">>
    /\ req["c2"].path = <<"chat", "speaking-practice">>
    /\ ran["c1"] = <<"chat_conversation">>
    /\ ran["c2"] = <<"speaking_practice">>

\* C6: every shape-valid request to a task endpoint gets a 2xx response
\* whose status is "Not implemented yet", whatever its field values.
C6_StubSuccess ==
    \A c \in Conns :
        (/\ pc[c] = "done"
         /\ Valid(c)
         /\ Handler(c) \in TaskHandlers(service))
            => /\ Len(out[c]) = 1
               /\ Resp(c).code \in 200 .. 299
               /\ Resp(c).body.status = "Not implemented yet"

\* A voice synthesis with speed 5.0 has been answered.
C6_Witness ==
    \E c \in Conns :
        /\ pc[c] = "done" /\ Valid(c)
        /\ Handler(c) = "generate_voice"
        /\ "speed" \in DOMAIN req[c].fields
        /\ req[c].fields.speed = 50

\* The value the response must echo under key b for the parameter k: only
\* stated where the request gives k.
Echoes(c, k, b) ==
    k \in DOMAIN req[c].fields => Resp(c).body[b] = req[c].fields[k]

TimeOf(ts) == ts.date * 86400 + ts.time

\* C8: the uptime of a /health response is the time elapsed since the
\* process started.
C8_UptimeSinceStart ==
    \A c \in Conns :
        (pc[c] = "done" /\ ran[c] = <<"health_check">>) =>
            Resp(c).body.uptime = TimeOf(Resp(c).body.timestamp) - startTime

\* C9: the response to a task request is a function of the request alone:
\* two connections with the same task request have the same response,
\* whatever was served before or between them.
C9_Stateless ==
    \A c1, c2 \in Conns :
        (/\ pc[c1] = "done" /\ pc[c2] = "done"
         /\ req[c1].method = req[c2].method
         /\ req[c1].path = req[c2].path
         /\ DOMAIN req[c1].fields = DOMAIN req[c2].fields
         /\ \A k \in DOMAIN req[c1].fields :
                req[c1].fields[k] = req[c2].fields[k]
         /\ ran[c1] # <<"health_check">>)
            => out[c1] = out[c2]

\* The same translation request answered on both connections.
C9_Witness ==
    /\ pc["c1"] = "done" /\ pc["c2"] = "done"
    /\ PostTo("c1", AI, <<"translate">>) /\ PostTo("c2", AI, <<"translate">>)
    /\ DOMAIN req["c1"].fields = {"text", "target_lang"}
    /\ DOMAIN req["c2"].fields = {"text", "target_lang"}
    /\ req["c1"].fields.text = req["c2"].fields.text
    /\ req["c1"].fields.target_lang = req["c2"].fields.target_lang
    /\ ran["c1"] = <<"translate_text">>

\* C10: a request never has more than one response; a request leaves the
\* state of being received only by getting its one response; and no request
\* stays received for ever, so every request is eventually answered exactly
\* once.  The real-time endpoints are no exception.
C10_ExactlyOneResponse ==
    /\ [](\A c \in Conns :
             /\ Len(out[c]) <= 1
             /\ pc[c] = "done" => Len(out[c]) = 1
             /\ pc[c] = "received" => Len(out[c]) = 0)
    /\ [][\A c \in Conns :
             (pc[c] = "received" /\ pc'[c] # "received") =>
                (pc'[c] = "done" /\ Len(out'[c]) = 1)]_vars
    /\ \A c \in Conns : []<>(pc[c] # "received")

\* /transcribe/real-time answered with its one response while another
\* request waits.
C10_Witness ==
    /\ pc["c1"] = "done"
    /\ service = Audio
    /\ req["c1"].path = <<"transcribe", "real-time">>
    /\ Len(out["c1"]) = 1
    /\ Resp("c1").code = 200
    /\ pc["c2"] = "received"

====
